---- MODULE Spec2Model ----
(***************************************************************************)
(* Multitrack MIDI tokenizer: the vocabulary (multitrack_vocabulary.py),   *)
(* the encoder midi_parser and the decoder list_parser                     *)
(* (multitrack_tokenizer.py).                                              *)
(*                                                                         *)
(* A vocabulary string such as "note_on_60_0" is modelled by the tuple of  *)
(* its '_'-separated fields, <<"note", "on", 60, 0>>: this is what         *)
(* str.split('_') yields in list_parser, with the decimal fields read by   *)
(* int().  Python list positions are 0-based; a Python index i of a list   *)
(* is position i + 1 of the sequence that models it.                       *)
(***************************************************************************)
EXTENDS Integers, Sequences, FiniteSets, TLC

VARIABLES
    pc,                 \* where the program is
    err,                \* the exception raised, "none" while there is none
    mid,                \* midi_parser: the tracks of the file read so far
    tempo,
    channel_programs,
    absolute_events,
    current_time,
    event_list,
    index_list,
    last_time,
    ev_pos,             \* position of the second pass in absolute_events
    dec_input,          \* list_parser: its index_list argument
    dec_events,         \* list_parser: event_list
    dec_pos,            \* position of the decoding loop in event_list
    tracks,             \* list_parser: mid.tracks
    instrument_tracks,  \* key -> position in tracks of that key's track
    current_instrument,
    current_velocity,
    delta_time,
    emitted,            \* history: the note messages in the order appended
    q,                  \* argument of a call of a vocabulary helper
    r                   \* its result

vars == <<pc, err, mid, tempo, channel_programs, absolute_events, current_time,
          event_list, index_list, last_time, ev_pos, dec_input, dec_events,
          dec_pos, tracks, instrument_tracks, current_instrument,
          current_velocity, delta_time, emitted, q, r>>

encVars == <<mid, tempo, channel_programs, absolute_events, current_time,
             event_list, index_list, last_time, ev_pos>>

decVars == <<dec_input, dec_events, dec_pos, tracks, instrument_tracks,
             current_instrument, current_velocity, delta_time, emitted>>

None == "None"

----------------------------------------------------------------------------
(* Manifest constants                                                      *)

note_on_events == 128
note_off_events == note_on_events
time_shift_events == 125
velocity_events == 32
max_instruments == 16
instrument_events == 128
LTH == 1000
DIV == LTH \div time_shift_events
BIN_STEP == 128 \div velocity_events

----------------------------------------------------------------------------
(* The vocabulary                                                          *)

note_on_vocab_by_note ==
    [k \in 1..(max_instruments * note_on_events) |->
        <<"note", "on", (k - 1) \div max_instruments, (k - 1) % max_instruments>>]

\* for inst in range(max_instruments) for i in range(note_on_events)
note_on_vocab ==
    [k \in 1..(max_instruments * note_on_events) |->
        <<"note", "on", (k - 1) % note_on_events, (k - 1) \div note_on_events>>]

note_off_vocab ==
    [k \in 1..(max_instruments * note_off_events) |->
        <<"note", "off", (k - 1) % note_off_events, (k - 1) \div note_off_events>>]

time_shift_vocab == [k \in 1..time_shift_events |-> <<"time", "shift", k - 1>>]

velocity_vocab == [k \in 1..velocity_events |-> <<"set", "velocity", k - 1>>]

instrument_vocab == [k \in 1..instrument_events |-> <<"set", "instrument", k - 1>>]

PAD == <<"<pad>">>
START == <<"<start>">>
END == <<"<end>">>

vocab ==
    <<PAD>> \o note_on_vocab \o note_off_vocab \o time_shift_vocab
            \o velocity_vocab \o instrument_vocab \o <<START, END>>

vocab_size == Len(vocab)

\* list.index: the first position holding the symbol; NotFound when it
\* raises ValueError.
NotFound == 0 - 1

FirstPosition(s) ==
    CHOOSE i \in 0..(vocab_size - 1) :
        vocab[i + 1] = s /\ \A j \in 0..(i - 1) : vocab[j + 1] # s

\* vocab.index over the symbols of the vocabulary, tabulated
vocab_index == [s \in {vocab[i] : i \in 1..vocab_size} |-> FirstPosition(s)]

VocabIndex(s) == IF s \in DOMAIN vocab_index THEN vocab_index[s] ELSE NotFound

\* list[idx]: a negative idx counts from the end; IndexError outside
\* [-len, len).
IndexError == <<"IndexError">>

VocabGet(idx) ==
    IF idx >= 0 /\ idx < vocab_size THEN vocab[idx + 1]
    ELSE IF idx < 0 /\ idx >= 0 - vocab_size THEN vocab[idx + vocab_size + 1]
    ELSE IndexError

pad_token == VocabIndex(PAD)
start_token == VocabIndex(START)
end_token == VocabIndex(END)

\* indices_to_events: [_vocab[idx] for idx in index_list]
indices_to_events(il) == [k \in 1..Len(il) |-> VocabGet(il[k])]

velocity_to_bin(velocity) ==
    IF velocity < 0 \/ velocity > 127 THEN NotFound ELSE velocity \div BIN_STEP

bin_to_velocity(bin) ==
    IF bin * BIN_STEP < 0 \/ bin * BIN_STEP > 127 THEN NotFound ELSE bin * BIN_STEP

\* round_(a) for a = num / den: a // 1, plus 1 when a % 1 >= 0.5
round_floor(num, den) == num \div den

round_(num, den) ==
    LET b == num \div den
        decimal_digits == num % den
        adder == IF 2 * decimal_digits >= den THEN 1 ELSE 0
    IN  b + adder

time_cutter(time, lth, div) ==
    LET full == [i \in 1..(time \div lth) |-> round_(lth, div)]
        leftover_time_shift == round_(time % lth, div)
    IN  IF leftover_time_shift > 0 THEN Append(full, leftover_time_shift) ELSE full

time_base_idx_after_pad == 1 + Len(note_on_vocab) + Len(note_off_vocab)

\* base_idx of time_to_events
time_base_idx == Len(note_on_vocab) + Len(note_off_vocab)

\* time_to_events: the indices appended to index_list, and the symbols
\* appended to event_list
time_to_indices(delta) ==
    LET time == time_cutter(delta, LTH, DIV)
    IN  [k \in 1..Len(time) |-> time_base_idx + time[k]]

time_to_events(delta) == indices_to_events(time_to_indices(delta))

get_note_event_indices(note, instrument, is_on) ==
    IF note < 0 \/ note > 127 THEN NotFound
    ELSE IF instrument < 0 \/ instrument >= max_instruments THEN NotFound
    ELSE LET base == IF is_on THEN 1 ELSE 1 + Len(note_on_vocab)
         IN  base + (instrument * note_on_events) + note

----------------------------------------------------------------------------
(* Bounds of the inputs                                                    *)

MaxTracks == 2
MaxMsgs == 2
MaxDelta == 2100
MaxLen == 3

Msg(type, time, note, velocity, channel, program, tp) ==
    [type |-> type, time |-> time, note |-> note, velocity |-> velocity,
     channel |-> channel, program |-> program, tempo |-> tp]

NoteTimes == {0, 11, 500}

\* The messages a track of the file may hold.  A field a message type does
\* not carry is 0.
Msgs ==
    {Msg("note_on", t, 60, 100, 0, 0, 0) : t \in NoteTimes}
    \cup {Msg("note_on", t, 72, 100, 1, 0, 0) : t \in NoteTimes}
    \cup {Msg("note_on", t, 60, 0, 0, 0, 0) : t \in NoteTimes}
    \cup {Msg("note_off", t, 60, 64, 0, 0, 0) : t \in NoteTimes}
    \cup {Msg("program_change", 0, 0, 0, 1, p, 0) : p \in {5, 20}}
    \cup {Msg("set_tempo", t, 0, 0, 0, 0, tp) : t \in {0, 500}, tp \in {0, 500000}}

is_meta(msg) == msg.type = "set_tempo"

MsgCount(m) ==
    LET Cnt[k \in 0..Len(m)] == IF k = 0 THEN 0 ELSE Cnt[k - 1] + Len(m[k])
    IN  Cnt[Len(m)]

----------------------------------------------------------------------------
(* midi_parser, first pass                                                 *)

MidiEvent(type, note, velocity, instrument, time, program) ==
    [type |-> type, note |-> note, velocity |-> velocity,
     instrument |-> instrument, time |-> time, program |-> program]

\* channel_programs.get(channel, 0)
ProgramOf(cp, channel) == IF channel \in DOMAIN cp THEN cp[channel] ELSE 0

\* if msg.type == "set_tempo" and tempo == 0: tempo = msg.tempo
TempoAfter(tp, msg) ==
    IF msg.type = "set_tempo" /\ tp = 0 THEN msg.tempo ELSE tp

\* for track in mid.tracks: the loop takes the next track of the file;
\* current_time, set once before the loop, is carried into it
BeginTrack ==
    /\ pc = "pass1"
    /\ Len(mid) < MaxTracks
    /\ mid' = Append(mid, <<>>)
    /\ UNCHANGED <<pc, err, tempo, channel_programs, absolute_events,
                   current_time, event_list, index_list, last_time, ev_pos, q, r>>
    /\ UNCHANGED decVars

\* for msg in track: one iteration of the inner loop
ReadMsg ==
    /\ pc = "pass1"
    /\ Len(mid) >= 1
    /\ MsgCount(mid) < MaxMsgs
    /\ \E msg \in Msgs :
        LET now == current_time + msg.time
            msg_type == IF msg.type = "note_on" /\ msg.velocity = 0
                        THEN "note_off" ELSE msg.type
        IN  /\ mid' = [mid EXCEPT ![Len(mid)] = Append(@, msg)]
            /\ current_time' = now
            /\ tempo' = IF is_meta(msg) THEN TempoAfter(tempo, msg) ELSE tempo
            /\ channel_programs' =
                   IF msg.type = "program_change"
                   THEN (msg.channel :> msg.program) @@ channel_programs
                   ELSE channel_programs
            /\ absolute_events' =
                   IF msg.type \in {"note_on", "note_off"}
                   THEN Append(absolute_events,
                               MidiEvent(msg_type, msg.note, msg.velocity,
                                         ProgramOf(channel_programs, msg.channel),
                                         now, None))
                   ELSE IF msg.type = "program_change"
                   THEN Append(absolute_events,
                               MidiEvent("set_instrument", None, None,
                                         msg.channel, now, msg.program))
                   ELSE absolute_events
    /\ UNCHANGED <<pc, err, event_list, index_list, last_time, ev_pos, q, r>>
    /\ UNCHANGED decVars

\* list.sort(key=lambda x: x.time): stable, by insertion after the entries
\* whose time is not larger
InsertByTime(s, e) ==
    LET n == Cardinality({k \in 1..Len(s) : s[k].time <= e.time})
    IN  SubSeq(s, 1, n) \o <<e>> \o SubSeq(s, n + 1, Len(s))

SortByTime(s) ==
    LET Sorted[k \in 0..Len(s)] ==
            IF k = 0 THEN <<>> ELSE InsertByTime(Sorted[k - 1], s[k])
    IN  Sorted[Len(s)]

\* The end of the first pass: the sort, the start token, last_time = 0
SortAndStart ==
    /\ pc = "pass1"
    /\ pc' = "pass2"
    /\ absolute_events' = SortByTime(absolute_events)
    /\ event_list' = <<START>>
    /\ index_list' = <<start_token>>
    /\ last_time' = 0
    /\ ev_pos' = 1
    /\ UNCHANGED <<err, mid, tempo, channel_programs, current_time, q, r>>
    /\ UNCHANGED decVars

----------------------------------------------------------------------------
(* midi_parser, second pass                                                *)

\* The symbols of one event, in the order the loop body appends them
\* (the time shifts of its gap are appended before them).
EventSymbolsVelocityForAll(event) ==
    IF event.type = "set_instrument"
    THEN << <<"set", "instrument", event.program>> >>
    ELSE << <<"set", "velocity", velocity_to_bin(event.velocity)>>,
            <<"note", IF event.type = "note_on" THEN "on" ELSE "off",
              event.note, event.instrument>> >>

EventSymbols(event) ==
    IF event.type = "set_instrument"
    THEN << <<"set", "instrument", event.program>> >>
    ELSE IF event.type = "note_on"
    THEN << <<"set", "velocity", velocity_to_bin(event.velocity)>>,
            <<"note", "on", event.note, event.instrument>> >>
    ELSE << <<"note", "off", event.note, event.instrument>> >>

\* event_list.append(s); index_list.append(vocab.index(s)) for each symbol
\* in turn, up to the first whose vocab.index raises ValueError.
AppendSymbols(el, il, syms) ==
    LET Step[k \in 0..Len(syms)] ==
            IF k = 0 THEN [el |-> el, il |-> il, ok |-> TRUE]
            ELSE LET p == Step[k - 1]
                     i == VocabIndex(syms[k])
                 IN  IF ~p.ok THEN p
                     ELSE IF i = NotFound
                     THEN [el |-> Append(p.el, syms[k]), il |-> p.il, ok |-> FALSE]
                     ELSE [el |-> Append(p.el, syms[k]), il |-> Append(p.il, i),
                           ok |-> TRUE]
    IN  Step[Len(syms)]

\* One iteration of "for event in absolute_events"
TokenStep ==
    /\ pc = "pass2"
    /\ ev_pos <= Len(absolute_events)
    /\ LET event == absolute_events[ev_pos]
           shifted == event.time > last_time
           el0 == IF shifted
                  THEN event_list \o time_to_events(event.time - last_time)
                  ELSE event_list
           il0 == IF shifted
                  THEN index_list \o time_to_indices(event.time - last_time)
                  ELSE index_list
           res == AppendSymbols(el0, il0, EventSymbols(event))
       IN  IF \E k \in 1..Len(el0) : el0[k] = IndexError
           THEN \* _vocab[idx] of time_to_events outside the vocabulary
                /\ pc' = "raised"
                /\ err' = "IndexError"
                /\ UNCHANGED <<event_list, index_list, last_time>>
           ELSE /\ last_time' = IF shifted THEN event.time ELSE last_time
                /\ event_list' = res.el
                /\ index_list' = res.il
                /\ pc' = IF res.ok THEN "pass2" ELSE "raised"
                /\ err' = IF res.ok THEN err ELSE "ValueError"
    /\ ev_pos' = ev_pos + 1
    /\ UNCHANGED <<mid, tempo, channel_programs, absolute_events, current_time, q, r>>
    /\ UNCHANGED decVars

\* The end token and the return
EndTokens ==
    /\ pc = "pass2"
    /\ ev_pos > Len(absolute_events)
    /\ event_list' = Append(event_list, END)
    /\ index_list' = Append(index_list, end_token)
    /\ pc' = "encoded"
    /\ UNCHANGED <<err, mid, tempo, channel_programs, absolute_events,
                   current_time, last_time, ev_pos, q, r>>
    /\ UNCHANGED decVars

----------------------------------------------------------------------------
(* list_parser                                                             *)

DefaultTempo == 512820
DefaultVelocity == 64

Message(type, note, velocity, channel, program, time) ==
    [type |-> type, note |-> note, velocity |-> velocity, channel |-> channel,
     program |-> program, time |-> time]

MetaMessage(type, name, tp, time) ==
    [type |-> type, name |-> name, tempo |-> tp, time |-> time]

\* An element of the index_list argument: whether isinstance(i, int)
\* holds of it (of i.item() for a tensor), and its value.
Index(isint, val) == [isint |-> isint, val |-> val]

\* The caller hands the encoder's LongTensor(index_list) to list_parser.
CallListParser ==
    /\ pc = "encoded"
    /\ pc' = "list_parser"
    /\ dec_input' = [k \in 1..Len(index_list) |-> Index(TRUE, index_list[k])]
    /\ UNCHANGED <<err, dec_events, dec_pos, tracks, instrument_tracks,
                   current_instrument, current_velocity, delta_time, emitted, q, r>>
    /\ UNCHANGED encVars

\* list_parser up to its loop: the type check of the indices,
\* indices_to_events, the metadata track and the initial decoding state
ListParser ==
    /\ pc = "list_parser"
    /\ LET events == indices_to_events([k \in 1..Len(dec_input) |-> dec_input[k].val])
           Raise(e) ==
               /\ pc' = "raised"
               /\ err' = e
               /\ UNCHANGED <<dec_events, dec_pos, tracks, instrument_tracks,
                              current_instrument, current_velocity, delta_time>>
       IN  IF \E k \in 1..Len(dec_input) : ~dec_input[k].isint
           THEN Raise("ValueError")
           ELSE IF \E k \in 1..Len(events) : events[k] = IndexError
           THEN Raise("IndexError")
           ELSE /\ pc' = "decoding"
                /\ err' = err
                /\ dec_events' = events
                /\ tracks' = << <<MetaMessage("track_name", "output", None, 0),
                                  MetaMessage("set_tempo", None, DefaultTempo, 0)>> >>
                /\ dec_pos' = 1
                /\ instrument_tracks' = <<>>
                /\ current_instrument' = 0
                /\ current_velocity' = DefaultVelocity
                /\ delta_time' = 0
    /\ UNCHANGED <<dec_input, emitted, q, r>>
    /\ UNCHANGED encVars

IsControl(ev) == ev \in {PAD, START, END}
IsTimeShift(ev) == Len(ev) >= 3 /\ ev[1] = "time" /\ ev[2] = "shift"
IsSetVelocity(ev) == Len(ev) >= 3 /\ ev[1] = "set" /\ ev[2] = "velocity"
IsSetInstrument(ev) == Len(ev) >= 3 /\ ev[1] = "set" /\ ev[2] = "instrument"
IsNote(ev) == Len(ev) >= 3 /\ ev[1] = "note" /\ ev[2] \in {"on", "off"}

\* The program-change that seeds the track of a key
ProgramChange(program, key) ==
    Message("program_change", None, None, key % 16, program, 0)

NoteMessageOnCurrent(note_type, note, velocity, instrument, time) ==
    Message(note_type, note, IF note_type = "note_on" THEN velocity ELSE 0,
            current_instrument % 16, None, time)

NoteMessage(note_type, note, velocity, instrument, time) ==
    Message(note_type, note, IF note_type = "note_on" THEN velocity ELSE 0,
            instrument % 16, None, time)

\* One iteration of "for event in event_list"
DecodeStep ==
    /\ pc = "decoding"
    /\ dec_pos <= Len(dec_events)
    /\ dec_pos' = dec_pos + 1
    /\ LET event == dec_events[dec_pos]
           last == event[Len(event)]
       IN  IF IsControl(event)
           THEN UNCHANGED <<tracks, instrument_tracks, current_instrument,
                            current_velocity, delta_time, emitted>>
           ELSE IF IsTimeShift(event)
           THEN /\ delta_time' = delta_time + last * DIV
                /\ UNCHANGED <<tracks, instrument_tracks, current_instrument,
                               current_velocity, emitted>>
           ELSE IF IsSetVelocity(event)
           THEN /\ current_velocity' = bin_to_velocity(last)
                /\ UNCHANGED <<tracks, instrument_tracks, current_instrument,
                               delta_time, emitted>>
           ELSE IF IsSetInstrument(event)
           THEN /\ current_instrument' = last
                /\ IF last \notin DOMAIN instrument_tracks
                   THEN /\ tracks' = Append(tracks, <<ProgramChange(last, last)>>)
                        /\ instrument_tracks' =
                               (last :> Len(tracks) + 1) @@ instrument_tracks
                   ELSE UNCHANGED <<tracks, instrument_tracks>>
                /\ UNCHANGED <<current_velocity, delta_time, emitted>>
           ELSE IF IsNote(event)
           THEN LET note_type == event[1] \o "_" \o event[2]
                    note == event[3]
                    instrument == event[4]
                    fresh == instrument \notin DOMAIN instrument_tracks
                    tracks1 == IF fresh
                               THEN Append(tracks, <<ProgramChange(0, instrument)>>)
                               ELSE tracks
                    it1 == IF fresh
                           THEN (instrument :> Len(tracks) + 1) @@ instrument_tracks
                           ELSE instrument_tracks
                    msg == NoteMessage(note_type, note, current_velocity,
                                       instrument, delta_time)
                IN  /\ tracks' = [tracks1 EXCEPT ![it1[instrument]] = Append(@, msg)]
                    /\ instrument_tracks' = it1
                    /\ emitted' = Append(emitted, [key |-> instrument, msg |-> msg])
                    /\ delta_time' = 0
                    /\ UNCHANGED <<current_instrument, current_velocity>>
           ELSE UNCHANGED <<tracks, instrument_tracks, current_instrument,
                            current_velocity, delta_time, emitted>>
    /\ UNCHANGED <<pc, err, dec_input, dec_events, q, r>>
    /\ UNCHANGED encVars

\* return mid
DecodeReturn ==
    /\ pc = "decoding"
    /\ dec_pos > Len(dec_events)
    /\ pc' = "decoded"
    /\ UNCHANGED <<err, q, r>>
    /\ UNCHANGED encVars
    /\ UNCHANGED decVars

----------------------------------------------------------------------------
(* Calls of the vocabulary helpers                                         *)

\* vocab[idx], then vocab.index of the symbol found
Lookup ==
    /\ pc = "lookup"
    /\ pc' = "looked_up"
    /\ r' = LET sym == VocabGet(q) IN [sym |-> sym, index |-> VocabIndex(sym)]
    /\ UNCHANGED <<err, q>>
    /\ UNCHANGED encVars
    /\ UNCHANGED decVars

\* get_note_event_indices(note, instrument, is_on)
NoteIndex ==
    /\ pc = "note_index"
    /\ pc' = "note_indexed"
    /\ r' = get_note_event_indices(q.note, q.instrument, q.is_on)
    /\ UNCHANGED <<err, q>>
    /\ UNCHANGED encVars
    /\ UNCHANGED decVars

\* time_to_events(delta_time, event_list, index_list) on empty lists;
\* r keeps the units time_cutter cut the gap into
TimeToEvents ==
    /\ pc = "time"
    /\ r' = time_cutter(q, LTH, DIV)
    /\ index_list' = index_list \o time_to_indices(q)
    /\ event_list' = event_list \o time_to_events(q)
    /\ IF \E k \in 1..Len(event_list') : event_list'[k] = IndexError
       THEN pc' = "raised" /\ err' = "IndexError"
       ELSE pc' = "timed" /\ err' = err
    /\ UNCHANGED <<mid, tempo, channel_programs, absolute_events, current_time,
                   last_time, ev_pos, q>>
    /\ UNCHANGED decVars

----------------------------------------------------------------------------
(* Specifications                                                          *)

Idle ==
    /\ err = "none"
    /\ mid = <<>>
    /\ tempo = 0
    /\ channel_programs = <<>>
    /\ absolute_events = <<>>
    /\ current_time = 0
    /\ event_list = <<>>
    /\ index_list = <<>>
    /\ last_time = 0
    /\ ev_pos = 0
    /\ dec_events = <<>>
    /\ dec_pos = 0
    /\ tracks = <<>>
    /\ instrument_tracks = <<>>
    /\ current_instrument = 0
    /\ current_velocity = 0
    /\ delta_time = 0
    /\ emitted = <<>>
    /\ r = None

\* midi_parser on a file, then list_parser on the indices it returns
Init ==
    /\ pc = "pass1"
    /\ dec_input = <<>>
    /\ q = None
    /\ Idle

Next ==
    \/ BeginTrack
    \/ ReadMsg
    \/ SortAndStart
    \/ TokenStep
    \/ EndTokens
    \/ CallListParser
    \/ ListParser
    \/ DecodeStep
    \/ DecodeReturn

Spec == Init /\ [][Next]_vars

\* list_parser on an index list
Sym(s) == Index(TRUE, VocabIndex(s))

DecIndices ==
    {Sym(PAD), Sym(START), Sym(END),
     Sym(<<"note", "on", 60, 0>>), Sym(<<"note", "off", 60, 0>>),
     Sym(<<"note", "on", 72, 5>>),
     Sym(<<"time", "shift", 62>>), Sym(<<"set", "velocity", 25>>),
     Sym(<<"set", "instrument", 5>>), Sym(<<"set", "instrument", 21>>),
     Index(TRUE, 0 - 1), Index(TRUE, 0 - 3), Index(TRUE, vocab_size),
     Index(FALSE, 1)}

SeqsUpTo(S, n) == UNION {[1..k -> S] : k \in 0..n}

InitDecode ==
    /\ pc = "list_parser"
    /\ dec_input \in SeqsUpTo(DecIndices, MaxLen)
    /\ q = None
    /\ Idle

NextDecode ==
    \/ ListParser
    \/ DecodeStep
    \/ DecodeReturn

SpecDecode == InitDecode /\ [][NextDecode]_vars

\* the quantizer on a gap
InitQuant ==
    /\ pc = "time"
    /\ dec_input = <<>>
    /\ q \in 0..MaxDelta
    /\ Idle

NextQuant == TimeToEvents

SpecQuant == InitQuant /\ [][NextQuant]_vars

\* the vocabulary's lookups
InitVocab ==
    /\ dec_input = <<>>
    /\ Idle
    /\ \/ pc = "lookup" /\ q \in 0..(vocab_size - 1)
       \/ /\ pc = "note_index"
          /\ q \in [note : 0..127, instrument : 0..(max_instruments - 1),
                    is_on : BOOLEAN]

NextVocab ==
    \/ Lookup
    \/ NoteIndex

SpecVocab == InitVocab /\ [][NextVocab]_vars

----------------------------------------------------------------------------
(* Properties                                                              *)

Sum(s) ==
    LET Acc[k \in 0..Len(s)] == IF k = 0 THEN 0 ELSE Acc[k - 1] + s[k]
    IN  Acc[Len(s)]

Abs(x) == IF x < 0 THEN 0 - x ELSE x

RoundHalfUp(n, d) == (2 * n + d) \div (2 * d)

\* The blocks of the vocabulary layout, as index ranges
NoteOnBlock == 1..(16 * 128)
NoteOffBlock == (1 + 16 * 128)..(2 * 16 * 128)
TimeShiftBlock == (1 + 2 * 16 * 128)..(2 * 16 * 128 + 125)
VelocityBlock == (1 + 2 * 16 * 128 + 125)..(2 * 16 * 128 + 125 + 32)

IsNoteEvent(e) == e.type \in {"note_on", "note_off"}

\* C5: the vocabulary is a bijection between [0, vocab_size) and its symbols
\* (vocab.index(vocab[i]) = i), vocab_size is 1 + 16*128 + 16*128 + 125 + 32
\* + 128 + 2, and get_note_event_indices(note, instrument, is_on) =
\* base + instrument*128 + note is the position of note_on_<note>_<instrument>
\* (base 1) or note_off_<note>_<instrument> (base 1 + 16*128) in vocab.
VocabularyBijective ==
    /\ vocab_size = 1 + 16 * 128 + 16 * 128 + 125 + 32 + 128 + 2
    /\ pc = "looked_up" => r.sym # IndexError /\ r.index = q
    /\ pc = "note_indexed" =>
        /\ r = (IF q.is_on THEN 1 ELSE 1 + 16 * 128) + q.instrument * 128 + q.note
        /\ r = VocabIndex(<<"note", IF q.is_on THEN "on" ELSE "off",
                            q.note, q.instrument>>)

VocabularyBijectiveWitness ==
    /\ pc = "note_indexed"
    /\ q = [note |-> 60, instrument |-> 3, is_on |-> FALSE]
    /\ r = 1 + 16 * 128 + 3 * 128 + 60

\* The blocks and the remainder of a gap, as the quantizer is specified:
\* one unit 125 per full block of 1000, and one more unit for the remainder
\* only when round-half-up((d mod 1000) / 8) > 0.
QuantizerUnits ==
    LET blocks == q \div 1000
        rest == RoundHalfUp(q % 1000, 8)
    IN  /\ Len(r) = blocks + (IF rest > 0 THEN 1 ELSE 0)
        /\ \A k \in 1..blocks : r[k] = 125
        /\ rest > 0 => r[Len(r)] = rest

\* C6 as stated: DIV * sum(time_cutter(d)) differs from d by at most
\* (DIV/2) * (number of units), and the units are those of QuantizerUnits.
QuantizerCoverageAsStated ==
    pc = "timed" =>
        /\ 2 * Abs(DIV * Sum(r) - q) <= DIV * Len(r)
        /\ QuantizerUnits

\* C6, amended: DIV * sum(time_cutter(d)) differs from d by at most
\* (DIV/2) * max(1, number of units): a gap of 1..3 yields no unit and is
\* reconstructed as 0; the units are those of QuantizerUnits.
QuantizerCoverage ==
    pc = "timed" =>
        /\ 2 * Abs(DIV * Sum(r) - q) <= DIV * (IF Len(r) = 0 THEN 1 ELSE Len(r))
        /\ QuantizerUnits

QuantizerCoverageWitness ==
    /\ pc = "timed"
    /\ q = 2004
    /\ r = <<125, 125, 1>>

\* C9: every index time_to_events appends lies in the TIME_SHIFT block
\* [1 + 2*16*128, 1 + 2*16*128 + 125), also for the maximal unit 125, the
\* symbol appended is the vocabulary entry at that index, and no lookup
\* leaves the vocabulary.
TimeShiftStaysInBlock ==
    pc \in {"timed", "raised"} =>
        /\ pc = "timed"
        /\ Len(index_list) = Len(r)
        /\ Len(event_list) = Len(r)
        /\ \A k \in 1..Len(r) :
            /\ index_list[k] \in TimeShiftBlock
            /\ event_list[k] = vocab[index_list[k] + 1]
            /\ IsTimeShift(event_list[k])

TimeShiftStaysInBlockWitness ==
    /\ pc = "timed"
    /\ q = 1000
    /\ r = <<125>>
    /\ index_list = <<2 * 16 * 128 + 125>>

\* C4: when midi_parser returns, its index sequence starts with START and
\* ends with END, every index is in [0, vocab_size), every NOTE_ON index is
\* immediately preceded by a SET_VELOCITY index, and no SET_VELOCITY index
\* precedes anything but a NOTE_ON (none is emitted for a NOTE_OFF).
WellFormed ==
    pc = "encoded" =>
        LET n == Len(index_list)
        IN  /\ n >= 2
            /\ index_list[1] = vocab_size - 2
            /\ index_list[n] = vocab_size - 1
            /\ \A k \in 1..n : index_list[k] >= 0 /\ index_list[k] < vocab_size
            /\ \A k \in 1..n :
                index_list[k] \in NoteOnBlock =>
                    k > 1 /\ index_list[k - 1] \in VelocityBlock
            /\ \A k \in 1..n :
                index_list[k] \in VelocityBlock =>
                    k < n /\ index_list[k + 1] \in NoteOnBlock

WellFormedWitness ==
    /\ pc = "encoded"
    /\ Len(index_list) = 6
    /\ index_list[2] \in VelocityBlock
    /\ index_list[3] \in NoteOnBlock
    /\ index_list[4] \in TimeShiftBlock
    /\ index_list[5] \in NoteOffBlock

\* The track key a token names: the program of a SET_INSTRUMENT, the
\* instrument of a NOTE_ON or NOTE_OFF
HasKey(ev) == IsSetInstrument(ev) \/ IsNote(ev)
KeyOf(ev) == ev[Len(ev)]

\* The distinct keys of a token sequence, in first-seen order
FirstSeenKeys(evs) ==
    LET Seen[k \in 0..Len(evs)] ==
            IF k = 0 THEN <<>>
            ELSE IF HasKey(evs[k])
                    /\ \A j \in 1..Len(Seen[k - 1]) : Seen[k - 1][j] # KeyOf(evs[k])
                 THEN Append(Seen[k - 1], KeyOf(evs[k]))
                 ELSE Seen[k - 1]
    IN  Seen[Len(evs)]

\* C7: the decoder's result holds the metadata track first, then exactly one
\* track per distinct key of the tokens decoded so far, in first-seen order;
\* each of these begins with a program-change and holds no other; every
\* message of the track keyed k has channel k mod 16; and the tracks hold one
\* note message per NOTE_ON/NOTE_OFF token decoded, so that PAD, START, END,
\* TIME_SHIFT and SET_VELOCITY tokens add no message.
TrackStructure ==
    pc \in {"decoding", "decoded"} =>
        LET done == SubSeq(dec_events, 1, dec_pos - 1)
            keys == FirstSeenKeys(done)
            notes == SelectSeq(done, IsNote)
        IN  /\ Len(tracks) = 1 + Len(keys)
            /\ Len(tracks[1]) = 2
            /\ tracks[1][1].type = "track_name"
            /\ tracks[1][2].type = "set_tempo"
            /\ DOMAIN instrument_tracks = {keys[j] : j \in 1..Len(keys)}
            /\ \A j \in 1..Len(keys) :
                LET track == tracks[j + 1]
                IN  /\ instrument_tracks[keys[j]] = j + 1
                    /\ Len(track) >= 1
                    /\ track[1].type = "program_change"
                    /\ \A m \in 2..Len(track) : track[m].type \in {"note_on", "note_off"}
                    /\ \A m \in 1..Len(track) : track[m].channel = keys[j] % 16
            /\ Sum([j \in 1..Len(keys) |-> Len(tracks[j + 1])]) = Len(keys) + Len(notes)
            /\ Len(emitted) = Len(notes)

TrackStructureWitness ==
    /\ pc = "decoded"
    /\ dec_events = << <<"set", "instrument", 21>>, <<"time", "shift", 62>>,
                       <<"note", "on", 72, 5>> >>
    /\ Len(tracks) = 3
    /\ Len(tracks[3]) = 2

\* C3: list_parser fails, and decodes nothing, whenever an element of its
\* index list is not an integer in [0, vocab_size).
IndicesValidated ==
    pc \in {"decoding", "decoded"} =>
        \A k \in 1..Len(dec_input) :
            /\ dec_input[k].isint
            /\ dec_input[k].val >= 0
            /\ dec_input[k].val < vocab_size

\* The stamps of the events of a file, each the sum of the delta-times of
\* its own track up to its message, in the order the first pass meets them
IsEventMsg(msg) == msg.type \in {"note_on", "note_off", "program_change"}

TrackStamps(track) ==
    LET Acc[k \in 0..Len(track)] ==
            IF k = 0 THEN [time |-> 0, out |-> <<>>]
            ELSE LET t == Acc[k - 1].time + track[k].time
                 IN  [time |-> t,
                      out |-> IF IsEventMsg(track[k])
                              THEN Append(Acc[k - 1].out, t) ELSE Acc[k - 1].out]
    IN  Acc[Len(track)].out

FileStamps(m) ==
    LET Acc[k \in 0..Len(m)] ==
            IF k = 0 THEN <<>> ELSE Acc[k - 1] \o TrackStamps(m[k])
    IN  Acc[Len(m)]

\* C8: in the first pass every event is stamped with the sum of the
\* delta-times of its own track up to its message.
PerTrackTime ==
    pc = "pass1" =>
        /\ Len(absolute_events) = Len(FileStamps(mid))
        /\ \A k \in 1..Len(absolute_events) :
            absolute_events[k].time = FileStamps(mid)[k]

\* The tempo of the first set_tempo message of a file, 0 when it has none
Flatten(m) ==
    LET Acc[k \in 0..Len(m)] == IF k = 0 THEN <<>> ELSE Acc[k - 1] \o m[k]
    IN  Acc[Len(m)]

IsSetTempo(msg) == msg.type = "set_tempo"

FirstTempo(m) ==
    LET tempos == SelectSeq(Flatten(m), IsSetTempo)
    IN  IF Len(tempos) = 0 THEN 0 ELSE tempos[1].tempo

\* C10: the tempo midi_parser returns is that of the first set_tempo message
\* of the file, whatever its value, and 0 when the file has none.
FirstTempoWins ==
    pc = "encoded" => tempo = FirstTempo(mid)

\* C2: a note-on (60, velocity 100, instrument 0) at time 0 and its note-off
\* at time 500 encode to [START, SET_VELOCITY(25), NOTE_ON(60,0),
\* TIME_SHIFT(63), NOTE_OFF(60,0), END]; in general a gap of u =
\* round-half-up(gap / DIV) units is emitted as the symbol TIME_SHIFT(u)
\* (here for the gap before the first event, below one block).
ScenarioTokens ==
    pc = "encoded" =>
        /\ mid = << <<Msg("note_on", 0, 60, 100, 0, 0, 0),
                      Msg("note_off", 500, 60, 64, 0, 0, 0)>> >> =>
              event_list = <<START, <<"set", "velocity", 25>>, <<"note", "on", 60, 0>>,
                             <<"time", "shift", 63>>, <<"note", "off", 60, 0>>, END>>
        /\ \A g \in 1..(LTH - 1) :
              (Len(absolute_events) >= 1 /\ absolute_events[1].time = g
               /\ RoundHalfUp(g, DIV) > 0) =>
                  event_list[2] = <<"time", "shift", RoundHalfUp(g, DIV)>>

\* C1: decoding the indices midi_parser returns yields, in order, note
\* messages of the same kind, note, instrument (track key and channel) and
\* velocity bin as the note events encoded; when all events are note events,
\* the time decoded for each gap between consecutive events differs from the
\* gap by at most DIV, and the total by at most DIV times the number of
\* TIME_SHIFT tokens.
RoundTrip ==
    pc = "decoded" =>
        LET notes == SelectSeq(absolute_events, IsNoteEvent)
            n == Len(notes)
            shifts == SelectSeq(dec_events, IsTimeShift)
            Gap(k) == notes[k].time - (IF k = 1 THEN 0 ELSE notes[k - 1].time)
        IN  /\ Len(emitted) = n
            /\ \A k \in 1..n :
                /\ emitted[k].msg.type = notes[k].type
                /\ emitted[k].msg.note = notes[k].note
                /\ emitted[k].key = notes[k].instrument
                /\ emitted[k].msg.channel = notes[k].instrument
                /\ notes[k].type = "note_on" =>
                       velocity_to_bin(emitted[k].msg.velocity)
                           = velocity_to_bin(notes[k].velocity)
            /\ n = Len(absolute_events) =>
                /\ \A k \in 1..n : Abs(emitted[k].msg.time - Gap(k)) <= DIV
                /\ Abs(Sum([k \in 1..n |-> emitted[k].msg.time])
                       - (IF n = 0 THEN 0 ELSE notes[n].time)) <= DIV * Len(shifts)

====
